---- MODULE Spec2Model ----
(***************************************************************************)
(* A model of vcov.py: per-file creation-time/duration extraction, the     *)
(* directory scan that builds the index, the JSON cache of the index, the  *)
(* timestamp resolver with its frame locator, and main with its entry      *)
(* block.                                                                  *)
(*                                                                         *)
(* Conventions.  A datetime is <<day, second>>: the days since 1904-01-01   *)
(* and the second of that day (the integers of the model checker have 32   *)
(* bits); a duration is an integer count of seconds.  An                   *)
(* optional value (Python's None or a value) is <<>> or <<v>>.  A string   *)
(* the code takes apart (a file name) is a sequence of one-character       *)
(* strings.  An ISO-8601 string is the tuple <<day, hour, minute, second>> *)
(* of its fields, the text of a -T argument likewise (<<>> is the empty    *)
(* string).                                                                *)
(***************************************************************************)
EXTENDS Integers, Sequences, FiniteSets, TLC

VARIABLES
    cache,                \* the artifact video_metadata_cache.json
    pc,                   \* where the program (or the function under test) is
    args,                 \* the argparse namespace of the invocation
    video_metadata_list,  \* the index: a sequence of records
    walk,                 \* the files os.walk has still to yield
    visited,              \* the files yielded so far, each with its extraction
    meta,                 \* what get_video_metadata returned last
    target_datetime,      \* the resolver's target_datetime
    idx,                  \* the resolver's position in its for loop
    calls,                \* the requests made to get_frame_at_timestamp
    frame,                \* what find_frame_at_datetime returned
    decoder,              \* what cv2 answers for each path
    out,                  \* what was printed
    run,                  \* what the current run of the program has done
    loaded                \* what load_metadata_from_file returned last

vars == <<cache, pc, args, video_metadata_list, walk, visited, meta,
          target_datetime, idx, calls, frame, decoder, out, run, loaded>>

\* ---------------------------------------------------------------- bounds

\* The longest directory listing a scan visits.
MaxFiles == 2
\* The longest record list handed to the resolver.
MaxRecords == 2
\* The longest duration, in seconds, of a generated file or record.
MaxDuration == 1

\* ------------------------------------------------------------- constants

\* datetime.datetime(1904, 1, 1), the origin of the model's time scale.
InvalidDate == <<0, 0>>

\* 2024-06-19 is day 44000 after 1904-01-01: the default of -T.
DefaultTargetText == <<44000, 19, 23, 50>>

\* ------------------------------------------------------------- datetimes

None == <<>>

Some(v) == <<v>>

\* datetime + timedelta(seconds=n), n of either sign.
AddSeconds(t, n) ==
    LET total == t[2] + n
    IN  <<t[1] + (total \div 86400), total % 86400>>

\* (a - b).total_seconds()
SecondsBetween(a, b) == (a[1] - b[1]) * 86400 + (a[2] - b[2])

\* a <= b on datetimes
NotAfter(a, b) == a[1] < b[1] \/ (a[1] = b[1] /\ a[2] <= b[2])

\* A faulty variant: the text is cut at the minutes (timespec='minutes').
IsoFormatMinutes(t) ==
    <<t[1], t[2] \div 3600, (t[2] % 3600) \div 60, 0>>

\* datetime.isoformat(): the fields of the text.
IsoFormat(t) ==
    <<t[1], t[2] \div 3600, (t[2] % 3600) \div 60, t[2] % 60>>

\* datetime.fromisoformat(): the datetime the fields denote.
FromIsoFormat(s) == <<s[1], s[2] * 3600 + s[3] * 60 + s[4]>>

\* datetime.strptime(text, '%Y-%m-%d %H:%M:%S'); None stands for ValueError.
Strptime(text) ==
    IF Len(text) = 4
       /\ text[2] \in 0..23 /\ text[3] \in 0..59 /\ text[4] \in 0..59
    THEN Some(<<text[1], text[2] * 3600 + text[3] * 60 + text[4]>>)
    ELSE None

\* Python's truth value of an optional number: None and 0 are false.
TruthyNumber(d) == d # None /\ d[1] # 0

\* Python's truth value of an optional datetime: only None is false.
TruthyDatetime(c) == c # None

\* ------------------------------------------------------------ file names

\* str.lower() on one character of the alphabet the names are drawn from.
LowerChar(c) ==
    CASE c = "M" -> "m"
      [] c = "P" -> "p"
      [] c = "K" -> "k"
      [] c = "V" -> "v"
      [] c = "O" -> "o"
      [] c = "A" -> "a"
      [] c = "T" -> "t"
      [] c = "X" -> "x"
      [] OTHER -> c

Lower(s) == [k \in 1..Len(s) |-> LowerChar(s[k])]

EndsWith(s, suffix) ==
    /\ Len(suffix) <= Len(s)
    /\ SubSeq(s, Len(s) - Len(suffix) + 1, Len(s)) = suffix

VideoSuffixes ==
    { <<".", "m", "p", "4">>, <<".", "a", "v", "i">>, <<".", "m", "o", "v">>,
      <<".", "m", "k", "v">>, <<".", "f", "l", "v">>, <<".", "w", "m", "v">> }

\* file.lower().endswith(('.mp4', '.avi', '.mov', '.mkv', '.flv', '.wmv'))
IsVideoFile(name) == \E suf \in VideoSuffixes : EndsWith(Lower(name), suf)

\* os.path.join(root, file)
PathJoin(root, name) == <<root, name>>

\* ------------------------------------------------------------ extraction

ExtractionFailure == [creation_time |-> None, duration |-> None, path |-> None]

\* A faulty variant: datetime_original is tried before creation_date.
CreationCandidateOriginalFirst(file) ==
    IF file.datetime_original # None THEN file.datetime_original
    ELSE IF file.creation_date # None THEN file.creation_date
    ELSE IF file.date_time # None THEN file.date_time
    ELSE None

\* The has/get chain over creation_date, datetime_original, date_time.
CreationCandidate(file) ==
    IF file.creation_date # None THEN file.creation_date
    ELSE IF file.datetime_original # None THEN file.datetime_original
    ELSE IF file.date_time # None THEN file.date_time
    ELSE None

\* A faulty variant: the duration is subtracted whatever the adjust flag.
FallbackTimeAlwaysAdjusted(mtime, adjust_creation_time, duration) ==
    IF TruthyNumber(duration) THEN AddSeconds(mtime, -duration[1]) ELSE mtime

\* The modification time, minus the duration under the adjust flag.
FallbackTime(mtime, adjust_creation_time, duration) ==
    IF adjust_creation_time /\ TruthyNumber(duration)
    THEN AddSeconds(mtime, -duration[1])
    ELSE mtime

\* get_video_metadata(video_path, adjust_creation_time) on a file whose
\* parse answers file.parse, whose metadata holds the optional fields, and
\* whose modification time is file.mtime (None: os.path.getmtime raises).
GetVideoMetadata(video_path, file, adjust_creation_time) ==
    IF file.parse # "ok"
    THEN ExtractionFailure   \* no parser, no metadata, or an exception caught
    ELSE LET duration == file.duration
             candidate == CreationCandidate(file)
         IN  IF candidate = Some(InvalidDate) \/ candidate = None
             THEN IF file.mtime = None
                  THEN ExtractionFailure   \* OSError, caught
                  ELSE [creation_time |->
                            Some(FallbackTime(file.mtime[1],
                                              adjust_creation_time, duration)),
                        duration |-> duration,
                        path |-> Some(video_path)]
             ELSE [creation_time |-> candidate,
                   duration |-> duration,
                   path |-> Some(video_path)]

\* A faulty variant: the duration is tested with "is not None", so 0 is kept.
RetainedZeroDuration(m) == TruthyDatetime(m.creation_time) /\ m.duration # None

\* if creation_time and duration:
Retained(m) == TruthyDatetime(m.creation_time) /\ TruthyNumber(m.duration)

\* The dictionary find_videos_in_folder appends.
IndexRecord(m) ==
    [path |-> m.path[1],
     creation_time |-> IsoFormat(m.creation_time[1]),
     duration |-> m.duration[1]]

\* ----------------------------------------------------------------- cache

\* No file named by METADATA_CACHE_FILE.
NoArtifact == [exists |-> FALSE, text |-> <<>>]

\* json.dump: each dictionary becomes the row of its three values.
JsonDump(metadata_list) ==
    [k \in 1..Len(metadata_list) |->
        <<metadata_list[k].path,
          metadata_list[k].creation_time,
          metadata_list[k].duration>>]

\* json.load: each row becomes a dictionary again.
JsonLoad(text) ==
    [k \in 1..Len(text) |->
        [path |-> text[k][1],
         creation_time |-> text[k][2],
         duration |-> text[k][3]]]

\* A faulty variant: nothing is written for an empty list.
SaveSkippingEmpty(metadata_list, file) ==
    IF metadata_list = <<>>
    THEN file
    ELSE [exists |-> TRUE, text |-> JsonDump(metadata_list)]

\* save_metadata_to_file: the artifact after open(filename, 'w') and dump.
SaveMetadataToFile(metadata_list, file) ==
    [exists |-> TRUE, text |-> JsonDump(metadata_list)]

\* load_metadata_from_file
LoadMetadataFromFile(file) ==
    IF ~file.exists THEN <<>> ELSE JsonLoad(file.text)

\* -------------------------------------------------------------- resolver

\* A faulty variant: the lower bound is exclusive.
CoversAfterStart(video, target) ==
    LET start_time == FromIsoFormat(video.creation_time)
        end_time == AddSeconds(start_time, video.duration)
    IN  NotAfter(start_time, target) /\ start_time # target
        /\ NotAfter(target, end_time)

\* A faulty variant: the upper bound is exclusive.
CoversBeforeEnd(video, target) ==
    LET start_time == FromIsoFormat(video.creation_time)
        end_time == AddSeconds(start_time, video.duration)
    IN  NotAfter(start_time, target)
        /\ NotAfter(target, end_time) /\ target # end_time

\* A faulty variant: the upper bound is not checked.
CoversFromStart(video, target) ==
    LET start_time == FromIsoFormat(video.creation_time)
    IN  NotAfter(start_time, target)

\* start_time <= target_datetime <= end_time
Covers(video, target) ==
    LET start_time == FromIsoFormat(video.creation_time)
        end_time == AddSeconds(start_time, video.duration)
    IN  NotAfter(start_time, target) /\ NotAfter(target, end_time)

\* (target_datetime - start_time).total_seconds()
ElapsedTime(video, target) ==
    SecondsBetween(target, FromIsoFormat(video.creation_time))

\* get_frame_at_timestamp: cv2 reports answer.fps for the path and reads
\* frame frame_number when the file holds it (answer.frames frames).
GetFrameAtTimestamp(answer, video_path, timestamp, frame_offset) ==
    LET frame_number == timestamp * answer.fps + frame_offset
    IN  IF frame_number \in 0..(answer.frames - 1)
        THEN Some([path |-> video_path, frame_number |-> frame_number])
        ELSE None

\* ------------------------------------------------------------- arguments

\* any(vars(args).values())
AnyValues(a) ==
    \/ a.folder_path # ""
    \/ a.show_times
    \/ a.display_metadata
    \/ a.search_for_frame
    \/ a.target_datetime # <<>>
    \/ a.frame_offset # 0
    \/ a.save_frame
    \/ a.display_frame
    \/ a.adjust_creation_time

\* The namespace of -f folder alone: every optional flag at its default.
DefaultArgs(folder) ==
    [folder_path |-> folder,
     show_times |-> FALSE,
     display_metadata |-> FALSE,
     search_for_frame |-> FALSE,
     target_datetime |-> DefaultTargetText,
     frame_offset |-> 0,
     save_frame |-> FALSE,
     display_frame |-> FALSE,
     adjust_creation_time |-> FALSE]

\* What a run has done so far; start_present is os.path.exists at its start.
FreshRun(present) ==
    [start_present |-> present, main_ran |-> FALSE,
     scanned |-> FALSE, wrote |-> FALSE]

\* ---------------------------------------------------------------- inputs

\* 2024-06-19 10:00:00, the time the generated inputs lie around.
Base == <<44000, 36000>>

\* The time k seconds after Base.
At(k) == AddSeconds(Base, k)

\* All sequences over S of length at most n.
SeqsUpTo(S, n) == UNION { [1..k -> S] : k \in 0..n }

NameMp4 == <<"a", ".", "m", "p", "4">>
NameMkvUpper == <<"B", ".", "M", "K", "V">>
NameTxt == <<"c", ".", "t", "x", "t">>
NameNoDot == <<"m", "p", "4">>

ParseOutcomes == {"ok", "noparser", "nometadata", "raises"}

OptionalDurations == {None} \cup { Some(d) : d \in 0..MaxDuration }

\* A file: where it is, what the parser makes of it, the duration and the
\* date fields of its metadata (created, original, date_time), its mtime.
File(root, name, parse, duration, created, original, date_time, mtime) ==
    [root |-> root, name |-> name, parse |-> parse, duration |-> duration,
     creation_date |-> created,
     datetime_original |-> original,
     date_time |-> date_time, mtime |-> mtime]

\* The values a metadata date field takes in the extraction check.
FieldTimes == {None, Some(InvalidDate), Some(At(59)), Some(At(61))}

\* Every file the extraction check hands to get_video_metadata.
ExtractFiles ==
    { File("videos", NameMp4, p, d, c, o, t, m) :
        p \in ParseOutcomes, d \in OptionalDurations,
        c \in FieldTimes, o \in FieldTimes,
        t \in {None, Some(At(61))},
        m \in {None, Some(At(100))} }

\* A file whose name is no video name: its content is never read.
OtherFiles ==
    { File("videos", n, "ok", None, None, None, None, Some(At(100))) :
        n \in {NameTxt, NameNoDot} }

\* The video files a scan meets: an extraction that fails, or one that
\* answers with or without a duration and with or without a creation date.
VideoFiles ==
    { File("videos", n, p, None, None, None, None, Some(At(100))) :
        n \in {NameMp4, NameMkvUpper},
        p \in ParseOutcomes \ {"ok"} }
    \cup
    { File("videos", n, "ok", d, c, None, None, Some(At(100))) :
        n \in {NameMp4, NameMkvUpper},
        d \in OptionalDurations,
        c \in {None, Some(At(59))} }

ScanFiles == OtherFiles \cup VideoFiles

\* ------------------------------------------------------ state at rest

NoVisit(file) == [file |-> file, called |-> FALSE, meta |-> ExtractionFailure]

Visit(file, m) == [file |-> file, called |-> TRUE, meta |-> m]

\* The variables of the scan, before any scan.
ScanAtRest ==
    /\ walk = <<>>
    /\ visited = <<>>
    /\ meta = ExtractionFailure

\* The variables of the resolver, before any search.
ResolverAtRest ==
    /\ target_datetime = InvalidDate
    /\ idx = 1
    /\ calls = <<>>
    /\ frame = None
    /\ decoder = <<>>

\* ------------------------------------------------------------- the scan

\* One pass of the inner for loop over a file that is no video file.
ScanSkip ==
    /\ pc = "scan"
    /\ walk # <<>>
    /\ ~IsVideoFile(Head(walk).name)
    /\ walk' = Tail(walk)
    /\ visited' = Append(visited, NoVisit(Head(walk)))
    /\ UNCHANGED <<cache, pc, args, video_metadata_list, meta,
                   target_datetime, idx, calls, frame, decoder, out, run,
                   loaded>>

\* One pass over a video file whose extraction gave both values.
ScanAppend ==
    /\ pc = "scan"
    /\ walk # <<>>
    /\ IsVideoFile(Head(walk).name)
    /\ LET file == Head(walk)
           m == GetVideoMetadata(PathJoin(file.root, file.name), file,
                                 args.adjust_creation_time)
       IN  /\ Retained(m)
           /\ meta' = m
           /\ video_metadata_list' = Append(video_metadata_list, IndexRecord(m))
           /\ visited' = Append(visited, Visit(file, m))
    /\ walk' = Tail(walk)
    /\ UNCHANGED <<cache, pc, args, target_datetime, idx, calls, frame,
                   decoder, out, run, loaded>>

\* One pass over a video file whose extraction failed or gave a false value.
ScanDrop ==
    /\ pc = "scan"
    /\ walk # <<>>
    /\ IsVideoFile(Head(walk).name)
    /\ LET file == Head(walk)
           m == GetVideoMetadata(PathJoin(file.root, file.name), file,
                                 args.adjust_creation_time)
       IN  /\ ~Retained(m)
           /\ meta' = m
           /\ visited' = Append(visited, Visit(file, m))
    /\ walk' = Tail(walk)
    /\ UNCHANGED <<cache, pc, args, video_metadata_list, target_datetime, idx,
                   calls, frame, decoder, out, run, loaded>>

\* return video_metadata_list
ScanReturn ==
    /\ pc = "scan"
    /\ walk = <<>>
    /\ pc' = "scanned"
    /\ UNCHANGED <<cache, args, video_metadata_list, walk, visited, meta,
                   target_datetime, idx, calls, frame, decoder, out, run,
                   loaded>>

ScanNext == ScanSkip \/ ScanAppend \/ ScanDrop \/ ScanReturn

\* ------------------------------------- get_video_metadata on its own

ExtractInit ==
    /\ pc = "extract"
    /\ walk \in { <<f>> : f \in ExtractFiles }
    /\ args \in { [DefaultArgs("videos") EXCEPT !.adjust_creation_time = a] :
                    a \in BOOLEAN }
    /\ cache = NoArtifact
    /\ video_metadata_list = <<>>
    /\ visited = <<>>
    /\ meta = ExtractionFailure
    /\ ResolverAtRest
    /\ out = {}
    /\ run = FreshRun(FALSE)
    /\ loaded = <<>>

\* A call of get_video_metadata.
Extract ==
    /\ pc = "extract"
    /\ LET file == Head(walk)
       IN  meta' = GetVideoMetadata(PathJoin(file.root, file.name), file,
                                    args.adjust_creation_time)
    /\ pc' = "extracted"
    /\ UNCHANGED <<cache, args, video_metadata_list, walk, visited,
                   target_datetime, idx, calls, frame, decoder, out, run,
                   loaded>>

SpecExtract == ExtractInit /\ [][Extract]_vars

\* -------------------------- the scan, then the cache, on their own

\* load_metadata_from_file, before the scan and after the save.
CacheLoad ==
    /\ pc \in {"start", "saved"}
    /\ loaded' = LoadMetadataFromFile(cache)
    /\ pc' = IF pc = "start" THEN "scan" ELSE "reloaded"
    /\ UNCHANGED <<cache, args, video_metadata_list, walk, visited, meta,
                   target_datetime, idx, calls, frame, decoder, out, run>>

\* save_metadata_to_file of the list the scan returned.
CacheSave ==
    /\ pc = "scanned"
    /\ cache' = SaveMetadataToFile(video_metadata_list, cache)
    /\ pc' = "saved"
    /\ UNCHANGED <<args, video_metadata_list, walk, visited, meta,
                   target_datetime, idx, calls, frame, decoder, out, run,
                   loaded>>

IndexInit ==
    /\ pc = "start"
    /\ walk \in SeqsUpTo(ScanFiles, MaxFiles)
    /\ args \in { [DefaultArgs("videos") EXCEPT !.adjust_creation_time = a] :
                    a \in BOOLEAN }
    /\ cache = NoArtifact
    /\ video_metadata_list = <<>>
    /\ visited = <<>>
    /\ meta = ExtractionFailure
    /\ ResolverAtRest
    /\ out = {}
    /\ run = FreshRun(FALSE)
    /\ loaded = <<>>

IndexNext == CacheLoad \/ ScanNext \/ CacheSave

SpecIndex == IndexInit /\ [][IndexNext]_vars

\* ------------------------------------------- the resolver, step by step

\* What cv2 may answer for a path: nothing readable, a file of one frame
\* (any later frame index is out of range), or a long file.
DecoderAnswers ==
    { [fps |-> 0, frames |-> 0], [fps |-> 1, frames |-> 1],
      [fps |-> 2, frames |-> 1000] }

PathsOf(metadata_list) ==
    { metadata_list[k].path : k \in 1..Len(metadata_list) }

\* The request the loop makes for the record at idx, and its answer.
Request ==
    LET video == video_metadata_list[idx]
        elapsed_time == ElapsedTime(video, target_datetime)
        answer == GetFrameAtTimestamp(decoder[video.path], video.path,
                                      elapsed_time, args.frame_offset)
    IN  [index |-> idx, path |-> video.path, timestamp |-> elapsed_time,
         frame_offset |-> args.frame_offset, answer |-> answer]

\* A pass of the for loop over a record that does not cover the target.
ResolveSkip ==
    /\ pc = "resolve"
    /\ idx <= Len(video_metadata_list)
    /\ ~Covers(video_metadata_list[idx], target_datetime)
    /\ idx' = idx + 1
    /\ UNCHANGED <<cache, pc, args, video_metadata_list, walk, visited, meta,
                   target_datetime, calls, frame, decoder, out, run, loaded>>

\* A pass over a covering record whose frame is decoded: return frame.
ResolveReturnFrame ==
    /\ pc = "resolve"
    /\ idx <= Len(video_metadata_list)
    /\ Covers(video_metadata_list[idx], target_datetime)
    /\ Request.answer # None
    /\ calls' = Append(calls, Request)
    /\ frame' = Request.answer
    /\ pc' = "resolved"
    /\ UNCHANGED <<cache, args, video_metadata_list, walk, visited, meta,
                   target_datetime, idx, decoder, out, run, loaded>>

\* A pass over a covering record whose frame is not decoded: the loop goes on.
ResolveDecodeFailed ==
    /\ pc = "resolve"
    /\ idx <= Len(video_metadata_list)
    /\ Covers(video_metadata_list[idx], target_datetime)
    /\ Request.answer = None
    /\ calls' = Append(calls, Request)
    /\ out' = out \cup {"Error retrieving frame."}
    /\ idx' = idx + 1
    /\ UNCHANGED <<cache, pc, args, video_metadata_list, walk, visited, meta,
                   target_datetime, frame, decoder, run, loaded>>

\* The loop is over: print and return None.
ResolveNoVideo ==
    /\ pc = "resolve"
    /\ idx > Len(video_metadata_list)
    /\ out' = out \cup {"No video found for the specified datetime."}
    /\ frame' = None
    /\ pc' = "resolved"
    /\ UNCHANGED <<cache, args, video_metadata_list, walk, visited, meta,
                   target_datetime, idx, calls, decoder, run, loaded>>

ResolveNext ==
    ResolveSkip \/ ResolveReturnFrame \/ ResolveDecodeFailed \/ ResolveNoVideo

\* ------------------------------------ find_frame_at_datetime on its own

PathA == PathJoin("videos", NameMp4)
PathB == PathJoin("videos", NameMkvUpper)
PathC == PathJoin("videos", <<"c", ".", "a", "v", "i">>)

Record(path, start, duration) ==
    [path |-> path, creation_time |-> IsoFormat(start), duration |-> duration]

ResolveRecords ==
    { Record(p, At(s), d) : p \in {PathA, PathB}, s \in {0, 1},
                            d \in 0..MaxDuration }

\* [10:00:00, 10:05:00], [10:04:30, 10:09:30], [10:20:00, 10:25:00]
ExampleList ==
    << Record(PathA, At(0), 300), Record(PathB, At(270), 300),
       Record(PathC, At(1200), 300) >>

\* 10:04:45
ExampleTarget == At(285)

ResolveInputs ==
    { <<l, At(k)>> : l \in SeqsUpTo(ResolveRecords, MaxRecords),
                     k \in (0 - 1)..(MaxDuration + 2) }
    \cup { <<ExampleList, ExampleTarget>> }

ResolveInit ==
    /\ pc = "resolve"
    /\ \E input \in ResolveInputs :
          /\ video_metadata_list = input[1]
          /\ target_datetime = input[2]
    /\ decoder \in [PathsOf(video_metadata_list) -> DecoderAnswers]
    /\ args \in { [DefaultArgs("videos") EXCEPT !.search_for_frame = TRUE,
                                                !.frame_offset = k] :
                    k \in {0, 1} }
    /\ idx = 1
    /\ calls = <<>>
    /\ frame = None
    /\ cache = NoArtifact
    /\ ScanAtRest
    /\ out = {}
    /\ run = FreshRun(FALSE)
    /\ loaded = <<>>

SpecResolve == ResolveInit /\ [][ResolveNext]_vars

\* ------------------------------------------------ main and the entry block

\* The -T default as a datetime: 2024-06-19 19:23:50.
DefaultTarget == Strptime(DefaultTargetText)[1]

\* The files under the folder while the program is watched: a video whose
\* interval ends at the default target, one with the invalid date (its
\* modification time is later than the target), one that cannot be parsed,
\* and a text file.
MainFiles ==
    { File("videos", NameMp4, "ok", Some(1),
           Some(AddSeconds(DefaultTarget, 0 - 1)), None, None,
           Some(AddSeconds(DefaultTarget, 9))),
      File("videos", NameMkvUpper, "ok", Some(1),
           Some(InvalidDate), None, None,
           Some(AddSeconds(DefaultTarget, 5))),
      File("videos", NameMp4, "noparser", None, None, None, None,
           Some(AddSeconds(DefaultTarget, 9))),
      File("videos", NameTxt, "ok", None, None, None, None,
           Some(AddSeconds(DefaultTarget, 9))) }

\* os.walk(folder_path): the listings it may yield.  os.walk of "" yields
\* nothing (the error of scandir is ignored).
OsWalk(folder_path) ==
    IF folder_path = "" THEN { <<>> } ELSE SeqsUpTo(MainFiles, MaxFiles)

\* The command lines: -f, -s, -T, -o, -A freely, and at most one of
\* -t, -d, -S, -D.
CommandLines ==
    { [folder_path |-> f,
       show_times |-> (o = "t"),
       display_metadata |-> (o = "d"),
       search_for_frame |-> s,
       target_datetime |-> t,
       frame_offset |-> k,
       save_frame |-> (o = "S"),
       display_frame |-> (o = "D"),
       adjust_creation_time |-> a] :
        f \in {"", "videos"}, o \in {"", "t", "d", "S", "D"},
        s \in BOOLEAN, t \in {<<>>, DefaultTargetText},
        k \in {0, 1}, a \in BOOLEAN }

\* The process starts: its variables are fresh.
ProcessStart(a) ==
    /\ args' = a
    /\ video_metadata_list' = <<>>
    /\ walk' = <<>>
    /\ visited' = <<>>
    /\ meta' = ExtractionFailure
    /\ target_datetime' = InvalidDate
    /\ idx' = 1
    /\ calls' = <<>>
    /\ frame' = None
    /\ decoder' = <<>>
    /\ loaded' = <<>>

\* The entry block when no value of the namespace is true: print_help().
EntryPrintHelp ==
    /\ pc = "shell"
    /\ \E a \in CommandLines :
          /\ ~AnyValues(a)
          /\ ProcessStart(a)
    /\ out' = {"usage"}
    /\ run' = FreshRun(cache.exists)
    /\ pc' = "exit"
    /\ UNCHANGED cache

\* The entry block otherwise: main(args).
EntryMain ==
    /\ pc = "shell"
    /\ \E a \in CommandLines :
          /\ AnyValues(a)
          /\ ProcessStart(a)
    /\ out' = {}
    /\ run' = [FreshRun(cache.exists) EXCEPT !.main_ran = TRUE]
    /\ pc' = "main"
    /\ UNCHANGED cache

\* main: the cache gave a list that is not empty.
MainLoadWarm ==
    /\ pc = "main"
    /\ LoadMetadataFromFile(cache) # <<>>
    /\ loaded' = LoadMetadataFromFile(cache)
    /\ video_metadata_list' = LoadMetadataFromFile(cache)
    /\ pc' = "loaded"
    /\ UNCHANGED <<cache, args, walk, visited, meta, target_datetime, idx,
                   calls, frame, decoder, out, run>>

\* main: the cache gave an empty list, find_videos_in_folder starts.
MainLoadCold ==
    /\ pc = "main"
    /\ LoadMetadataFromFile(cache) = <<>>
    /\ loaded' = LoadMetadataFromFile(cache)
    /\ video_metadata_list' = <<>>
    /\ walk' \in OsWalk(args.folder_path)
    /\ run' = [run EXCEPT !.scanned = TRUE]
    /\ pc' = "scan"
    /\ UNCHANGED <<cache, args, visited, meta, target_datetime, idx, calls,
                   frame, decoder, out>>

\* main: save_metadata_to_file after the scan.
MainSave ==
    /\ pc = "scanned"
    /\ cache' = SaveMetadataToFile(video_metadata_list, cache)
    /\ run' = [run EXCEPT !.wrote = TRUE]
    /\ pc' = "loaded"
    /\ UNCHANGED <<args, video_metadata_list, walk, visited, meta,
                   target_datetime, idx, calls, frame, decoder, out, loaded>>

\* main without -s: nothing more is done.
MainNoSearch ==
    /\ pc = "loaded"
    /\ ~args.search_for_frame
    /\ pc' = "exit"
    /\ UNCHANGED <<cache, args, video_metadata_list, walk, visited, meta,
                   target_datetime, idx, calls, frame, decoder, out, run,
                   loaded>>

\* main with -s and a target that strptime rejects: ValueError ends the run.
MainBadTarget ==
    /\ pc = "loaded"
    /\ args.search_for_frame
    /\ Strptime(args.target_datetime) = None
    /\ out' = out \cup {"ValueError"}
    /\ pc' = "exit"
    /\ UNCHANGED <<cache, args, video_metadata_list, walk, visited, meta,
                   target_datetime, idx, calls, frame, decoder, run, loaded>>

\* main with -s: find_frame_at_datetime is called.
MainSearch ==
    /\ pc = "loaded"
    /\ args.search_for_frame
    /\ Strptime(args.target_datetime) # None
    /\ target_datetime' = Strptime(args.target_datetime)[1]
    /\ decoder' \in [PathsOf(video_metadata_list) -> DecoderAnswers]
    /\ idx' = 1
    /\ calls' = <<>>
    /\ pc' = "resolve"
    /\ UNCHANGED <<cache, args, video_metadata_list, walk, visited, meta,
                   frame, out, run, loaded>>

\* main after the search: display_frame and save_frame_to_png.
MainFinish ==
    /\ pc = "resolved"
    /\ out' = out
          \cup (IF ~args.display_frame THEN {}
                ELSE IF frame # None THEN {"imshow"}
                ELSE {"No frame to display."})
          \cup (IF ~args.save_frame THEN {}
                ELSE IF frame # None THEN {"captured_frame.png"}
                ELSE {"No frame to save."})
    /\ pc' = "exit"
    /\ UNCHANGED <<cache, args, video_metadata_list, walk, visited, meta,
                   target_datetime, idx, calls, frame, decoder, run, loaded>>

\* The process ends: of its state only the artifact is left.
ProcessEnd ==
    /\ pc = "exit"
    /\ pc' = "shell"
    /\ ProcessStart(DefaultArgs(""))
    /\ out' = {}
    /\ run' = FreshRun(FALSE)
    /\ UNCHANGED cache

\* Between runs the user deletes the artifact (its only teardown).
DeleteArtifact ==
    /\ pc = "shell"
    /\ cache.exists
    /\ cache' = NoArtifact
    /\ UNCHANGED <<pc, args, video_metadata_list, walk, visited, meta,
                   target_datetime, idx, calls, frame, decoder, out, run,
                   loaded>>

Init ==
    /\ pc = "shell"
    /\ cache = NoArtifact
    /\ args = DefaultArgs("")
    /\ video_metadata_list = <<>>
    /\ ScanAtRest
    /\ ResolverAtRest
    /\ out = {}
    /\ run = FreshRun(FALSE)
    /\ loaded = <<>>

Next ==
    \/ EntryPrintHelp
    \/ EntryMain
    \/ MainLoadWarm
    \/ MainLoadCold
    \/ ScanNext
    \/ MainSave
    \/ MainNoSearch
    \/ MainBadTarget
    \/ MainSearch
    \/ ResolveNext
    \/ MainFinish
    \/ ProcessEnd
    \/ DeleteArtifact

Spec == Init /\ [][Next]_vars

\* ------------------------------------------------ what the claims speak of

\* The least element of a non-empty set of integers.
Least(S) == CHOOSE k \in S : \A j \in S : k <= j

\* The metadata fields in the order of their priority.
FieldsByPriority(file) ==
    <<file.creation_date, file.datetime_original, file.date_time>>

\* The first field of that order that is present, None when none is.
FirstPresentField(file) ==
    LET fields == FieldsByPriority(file)
        present == { k \in 1..3 : fields[k] # None }
    IN  IF present = {} THEN None ELSE fields[Least(present)]

\* The part of a name after its last dot, None when it has no dot.
ExtensionOf(name) ==
    LET dots == { k \in 1..Len(name) : name[k] = "." }
    IN  IF dots = {} THEN None
        ELSE Some(SubSeq(name, (CHOOSE k \in dots : \A j \in dots : j <= k) + 1,
                         Len(name)))

VideoExtensions ==
    { <<"m", "p", "4">>, <<"a", "v", "i">>, <<"m", "o", "v">>,
      <<"m", "k", "v">>, <<"f", "l", "v">>, <<"w", "m", "v">> }

\* The name's extension is, whatever its case, one of the six.
HasVideoExtension(name) ==
    /\ ExtensionOf(name) # None
    /\ Lower(ExtensionOf(name)[1]) \in VideoExtensions

\* A visited file that must contribute a record: a qualifying file whose
\* extraction returned a creation time and a duration that is not zero.
Contributes(v) ==
    /\ HasVideoExtension(v.file.name)
    /\ v.called
    /\ v.meta.creation_time # None
    /\ v.meta.duration # None
    /\ v.meta.duration[1] # 0

\* s <= t <= s + d for the record's start s and duration d, in seconds
\* from the start.
InInterval(video, t) ==
    LET since == SecondsBetween(t, FromIsoFormat(video.creation_time))
    IN  0 <= since /\ since <= video.duration

\* The positions of the list whose interval holds the target.
CoveringPositions ==
    { k \in 1..Len(video_metadata_list) :
        InInterval(video_metadata_list[k], target_datetime) }

\* The decoder's answer for the record at position k and the target.
DecodeOf(k) ==
    LET video == video_metadata_list[k]
    IN  GetFrameAtTimestamp(
            decoder[video.path], video.path,
            SecondsBetween(target_datetime, FromIsoFormat(video.creation_time)),
            args.frame_offset)

\* The loop of find_frame_at_datetime has dealt with position k.
Examined(k) ==
    \/ k < idx
    \/ k = idx /\ pc = "resolved" /\ frame # None

\* A request was made to the decoder for position k.
Requested(k) == \E j \in 1..Len(calls) : calls[j].index = k

\* find_frame_at_datetime has returned a frame.
FrameReturned == pc = "resolved" /\ frame # None

\* ------------------------------------------------------------------- C1

\* C1, as stated: a returned frame is always the frame decoded from the
\* first record, in list order, whose interval contains the target,
\* whatever the decoder answers.
C1_FirstCoveringAlwaysUsed ==
    FrameReturned =>
        /\ CoveringPositions # {}
        /\ calls[Len(calls)].index = Least(CoveringPositions)
        /\ frame = DecodeOf(Least(CoveringPositions))

\* C1, amended: a returned frame is the frame decoded from the first
\* record, in list order, whose interval contains the target and whose
\* decode succeeds; a later covering record is used only when the decoder
\* gave no frame for every covering record before it.  The elapsed time
\* handed to the decoder is the target minus that record's start.
C1_FirstDecodableCoveringUsed ==
    FrameReturned =>
        LET used == calls[Len(calls)].index
        IN  /\ used \in CoveringPositions
            /\ frame = DecodeOf(used)
            /\ calls[Len(calls)].timestamp =
                   SecondsBetween(target_datetime,
                       FromIsoFormat(video_metadata_list[used].creation_time))
            /\ \A k \in CoveringPositions : k < used => DecodeOf(k) = None
            /\ DecodeOf(Least(CoveringPositions)) # None
                   => used = Least(CoveringPositions)

\* The scenario of the specification: the target 10:04:45 lies in the first
\* and in the second interval; the first file is used, 285 s into it.
C1_Witness ==
    /\ FrameReturned
    /\ video_metadata_list = ExampleList
    /\ target_datetime = ExampleTarget
    /\ CoveringPositions = {1, 2}
    /\ Len(calls) = 1
    /\ calls[1].index = 1
    /\ calls[1].timestamp = 285
    /\ frame[1].path = PathA

\* ------------------------------------------------------------------- C4

\* C4: a record the loop has dealt with was treated as covering the target
\* (a decoder request was made for it) if and only if s <= t <= s + d; so
\* t = s and t = s + d are matches, and t one second before s or one second
\* after s + d is not.
C4_InclusiveInterval ==
    pc \in {"resolve", "resolved"} =>
        \A k \in 1..Len(video_metadata_list) :
            Examined(k) =>
                LET video == video_metadata_list[k]
                    s == FromIsoFormat(video.creation_time)
                    e == AddSeconds(s, video.duration)
                    t == target_datetime
                IN  /\ Requested(k) <=> InInterval(video, t)
                    /\ (t = s \/ t = e) => Requested(k)
                    /\ (t = AddSeconds(s, 0 - 1) \/ t = AddSeconds(e, 1))
                           => ~Requested(k)

\* A finished search in which one record ends exactly at the target and was
\* requested, and another ended one second before it and was not.
C4_Witness ==
    /\ pc = "resolved"
    /\ \E k, j \in 1..Len(video_metadata_list) :
          LET a == video_metadata_list[k]
              b == video_metadata_list[j]
          IN  /\ Examined(k) /\ Examined(j)
              /\ a.duration > 0
              /\ target_datetime =
                     AddSeconds(FromIsoFormat(a.creation_time), a.duration)
              /\ Requested(k)
              /\ target_datetime =
                     AddSeconds(FromIsoFormat(b.creation_time), b.duration + 1)
              /\ ~Requested(j)

\* ------------------------------------------------------------------ C10

\* The requests made so far: each for a record whose interval holds the
\* target, with that record's path and elapsed = target - creation_time
\* within 0..duration; positions strictly increasing (list order, at most
\* once per record); only the last request may have been answered with a
\* frame, and once it has the search is over.
C10_Requests ==
    pc \in {"resolve", "resolved"} =>
        /\ \A j \in 1..Len(calls) :
              LET c == calls[j]
                  video == video_metadata_list[c.index]
              IN  /\ c.index \in CoveringPositions
                  /\ c.index <= idx
                  /\ c.path = video.path
                  /\ c.timestamp =
                         SecondsBetween(target_datetime,
                                        FromIsoFormat(video.creation_time))
                  /\ 0 <= c.timestamp /\ c.timestamp <= video.duration
                  /\ j < Len(calls) =>
                         /\ c.index < calls[j + 1].index
                         /\ c.answer = None
        /\ (calls # <<>> /\ calls[Len(calls)].answer # None) => pc = "resolved"

\* C10: during a call of find_frame_at_datetime the decoder is asked only
\* for covering records, in list order, at most once per record, with
\* 0 <= elapsed <= duration, never again after a successful decode, and the
\* record list is left unchanged.
C10_DecoderRequests ==
    [](C10_Requests) /\ [][video_metadata_list' = video_metadata_list]_vars

\* A search whose first covering record gave no frame and whose second did.
C10_Witness ==
    /\ pc = "resolved"
    /\ Len(calls) = 2
    /\ calls[1].answer = None
    /\ calls[2].answer # None
    /\ frame = calls[2].answer

\* ------------------------------------------------------------------- C7

\* C7: on a file whose metadata was extracted, the creation time comes from
\* the first present field in the order creation_date, datetime_original,
\* date_time: unless that field holds the invalid date, its value is the
\* creation time returned.
C7_PriorityOrder ==
    (pc = "extracted" /\ Head(walk).parse = "ok") =>
        LET chosen == FirstPresentField(Head(walk))
        IN  (chosen # None /\ chosen # Some(InvalidDate))
                => meta.creation_time = chosen

\* Both creation_date and datetime_original are present, with different
\* values, and creation_date is returned.
C7_Witness ==
    /\ pc = "extracted"
    /\ Head(walk).parse = "ok"
    /\ Head(walk).creation_date = Some(At(59))
    /\ Head(walk).datetime_original = Some(At(61))
    /\ meta.creation_time = Some(At(59))

\* ------------------------------------------------------------------- C8

\* C8: when no field is present or the chosen field is the invalid date,
\* the creation time returned is the modification time, minus the duration
\* exactly when the adjust flag is set and the duration is known; when the
\* chosen field is present and valid it is returned unchanged, whatever the
\* flag.  (A modification time that cannot be read is an extraction error.)
C8_FallbackToModificationTime ==
    (pc = "extracted" /\ Head(walk).parse = "ok") =>
        LET file == Head(walk)
            chosen == FirstPresentField(file)
        IN  IF chosen = None \/ chosen = Some(InvalidDate)
            THEN file.mtime # None =>
                    /\ meta.duration = file.duration
                    /\ meta.creation_time =
                         IF args.adjust_creation_time /\ file.duration # None
                         THEN Some(AddSeconds(file.mtime[1],
                                              0 - file.duration[1]))
                         ELSE file.mtime
            ELSE /\ meta.creation_time = chosen
                 /\ meta.duration = file.duration

\* The invalid date in creation_date, a valid date in a later field, the
\* adjust flag set and a duration of one second: the modification time
\* less one second is returned.
C8_Witness ==
    /\ pc = "extracted"
    /\ Head(walk).parse = "ok"
    /\ Head(walk).creation_date = Some(InvalidDate)
    /\ Head(walk).datetime_original = Some(At(61))
    /\ Head(walk).duration = Some(1)
    /\ args.adjust_creation_time
    /\ meta.creation_time = Some(At(99))

\* ------------------------------------------------------------------- C9

\* C9: at every point of the scan the index is the sub-sequence, in the
\* order of discovery, of the visited files that qualify by extension and
\* whose extraction returned a creation time and a non-zero duration; a
\* file whose extraction failed is not in it, and the scan always goes on
\* to the next file until none is left.
C9_IndexIsSubsequence ==
    pc \in {"scan", "scanned"} =>
        LET kept == SelectSeq(visited, Contributes)
        IN  /\ Len(video_metadata_list) = Len(kept)
            /\ \A k \in 1..Len(kept) :
                  LET r == video_metadata_list[k]
                      v == kept[k]
                  IN  /\ r.path = PathJoin(v.file.root, v.file.name)
                      /\ FromIsoFormat(r.creation_time) = v.meta.creation_time[1]
                      /\ r.duration = v.meta.duration[1]
                      /\ v.file.parse = "ok"
            /\ pc = "scan" => ENABLED ScanNext
            /\ pc = "scanned" => walk = <<>>

\* A finished scan of two video files: the extraction of the first raised,
\* the second is indexed.
C9_Witness ==
    /\ pc = "scanned"
    /\ Len(visited) = 2
    /\ visited[1].called /\ visited[1].file.parse = "raises"
    /\ visited[2].called /\ visited[2].file.duration = Some(1)
    /\ Len(video_metadata_list) = 1
    /\ video_metadata_list[1].path = PathJoin("videos", visited[2].file.name)

\* ------------------------------------------------------------------- C6

\* C6: the list loaded from the artifact that save_metadata_to_file wrote
\* for the scanner's list equals that list, record by record in the same
\* order, and each creation_time read back is, to the second, the creation
\* time the extraction returned; the load made while no artifact exists
\* returns the empty list.
C6_CacheRoundTrip ==
    /\ pc = "reloaded" =>
          LET kept == SelectSeq(visited, Contributes)
          IN  /\ loaded = video_metadata_list
              /\ Len(loaded) = Len(kept)
              /\ \A k \in 1..Len(loaded) :
                    FromIsoFormat(loaded[k].creation_time)
                        = kept[k].meta.creation_time[1]
    /\ (pc \in {"scan", "scanned"} /\ ~cache.exists) => loaded = <<>>

\* A list of two records, one of them with a creation time that is not on
\* a whole minute, written and read back.
C6_Witness ==
    /\ pc = "reloaded"
    /\ Len(loaded) = 2
    /\ loaded[1].creation_time[4] # 0
    /\ loaded = video_metadata_list

\* ------------------------------------------------------------------- C5

\* The search is over.
SearchOver == pc = "resolved" /\ run.main_ran

\* C5: a scan that met no qualifying file leaves an empty artifact; and a
\* search over a list none of whose intervals holds the target (the empty
\* list among them) prints "No video found", returns nothing and makes no
\* request to the decoder.
C5_EmptyLibraryAndNoMatch ==
    /\ (/\ pc \in {"loaded", "resolve", "resolved", "exit"}
        /\ run.wrote
        /\ \A k \in 1..Len(visited) : ~HasVideoExtension(visited[k].file.name))
          => /\ cache.exists
             /\ cache.text = <<>>
             /\ LoadMetadataFromFile(cache) = <<>>
    /\ (SearchOver /\ CoveringPositions = {})
          => /\ "No video found for the specified datetime." \in out
             /\ frame = None
             /\ calls = <<>>

\* A cold run over a folder that holds a text file only, with -s: the
\* artifact is empty and the search finds no video.
C5_Witness ==
    /\ SearchOver
    /\ run.wrote
    /\ Len(visited) = 1
    /\ ~HasVideoExtension(visited[1].file.name)
    /\ cache.exists /\ cache.text = <<>>
    /\ video_metadata_list = <<>>
    /\ "No video found for the specified datetime." \in out
    /\ frame = None

\* ------------------------------------------------------------------- C2

\* C2, as stated: a run that started with the artifact present performs no
\* scan and does not rewrite the artifact, and takes its list from it.
C2_ScanOnlyWhenArtifactAbsent ==
    (pc # "shell" /\ run.start_present) =>
        /\ ~run.scanned
        /\ ~run.wrote
        /\ pc \in {"loaded", "resolve", "resolved"}
               => video_metadata_list = JsonLoad(cache.text)

\* ------------------------------------------------------------------- C3

\* The command line gave the folder and nothing else.
NoFlagsGiven == args.folder_path # "" /\ args = DefaultArgs(args.folder_path)

\* C3, as stated: invoked with the folder path alone, the program prints
\* its usage, and main is not run: no scan, no write of the artifact.
C3_NoFlagsPrintsUsage ==
    (pc # "shell" /\ NoFlagsGiven) =>
        /\ "usage" \in out
        /\ ~run.main_ran
        /\ ~run.scanned
        /\ ~run.wrote

====
